---- MODULE Spec2Model ----
(***************************************************************************)
(* Request / Match lifecycle of the blood and organ donation server.       *)
(*                                                                         *)
(* The persisted collections (requests, matches) are the shared state.     *)
(* Every controller is an async function: between two awaits other        *)
(* requests may run, so each handler is a sequence of steps of a worker    *)
(* (pc, loc), one step per awaited store access.  out[p] is the response   *)
(* worker p sent last, together with what the handler observed and did.    *)
(*                                                                         *)
(* A document save writes the paths the handler modified: an assigned      *)
(* scalar is $set when its value differs from the loaded one, a pushed     *)
(* history entry is $push-ed onto the persisted array, an assigned array   *)
(* replaces the persisted array.  A store access either succeeds or        *)
(* throws; the handler's catch block answers 500.                          *)
(*                                                                         *)
(* A status-history entry is modelled by its status (updatedBy and notes   *)
(* are carried data no handler reads back).  Every donor id names a        *)
(* stored Donor.  rev counts the writes a document has received.           *)
(*                                                                         *)
(* The donor side (donorDocs, users) is the Donor collection and the       *)
(* donorProfile paths of the User collection that the match search         *)
(* queries; search is the last answer of findPotentialMatches and call     *)
(* the last application of one of its two helper functions.  Spec runs     *)
(* the Request / Match handlers, SpecStatus and SpecLogistics run subsets  *)
(* of them, SpecSearch runs the search next to the donor handlers, and     *)
(* SpecCompatible and SpecScore apply the helper functions to every        *)
(* argument.  SpecReset runs the two password-reset handlers of the auth   *)
(* controller on the auth paths of the User collection while the clock     *)
(* advances.                                                               *)
(***************************************************************************)
EXTENDS Integers, Sequences, FiniteSets, TLC

\* ---------------------------------------------------------------- bounds
NumRequests == 1
NumDonors == 2
NumHospitals == 2
MaxMatches == 2
NumProcs == 2
MaxOps == 3
MaxLogisticsValue == 1
NumSearchDonors == 1
NumRequestedOrgans == 2
NumSearchTimes == 3
MaxDistance == 51
NumRankedDonors == 2
NumAccounts == 1
NumPasswords == 2
MaxTicks == 3
TickSeconds == 1800

RequestIds == 1..NumRequests
Donors == 1..NumDonors
Hospitals == 1..NumHospitals
MatchIds == 1..MaxMatches
Procs == 1..NumProcs
\* the donor users registered while searches run
SearchDonors == 1..NumSearchDonors

\* ------------------------------------------------------------- statuses
\* the values the PATCH /api/requests/:id/status validator admits
RequestStatuses ==
  {"pending", "searching", "matched", "in_progress", "completed", "cancelled"}

\* the values the PATCH /api/matches/:id/status validator admits
MatchStatuses ==
  {"proposed", "pending_confirmation", "confirmed", "rejected",
   "in_transit", "delivered", "transplanted", "failed"}

\* enum of recipientDetails.urgencyLevel
UrgencyLevels == {"routine", "urgent", "emergency", "critical"}

\* the urgency levels the clients put into their edits
EditedUrgencyLevels == {"urgent", "critical"}

\* req.body of PUT /api/requests/:id, the two paths that carry the urgency
\* level; "": not given (falsy)
RequestBodies ==
  [recipientDetails : EditedUrgencyLevels \cup {""},
   urgencyLevel : EditedUrgencyLevels \cup {""}]

\* --------------------------------------------------------------- actors
\* req.user: a role and, for hospital and donor users, the profile found
\* for the user (0: the user has no profile)
Actors ==
  [role : {"admin", "coordinator"}, id : {0}]
    \cup [role : {"hospital"}, id : Hospitals \cup {0}]
    \cup [role : {"donor"}, id : Donors]

\* checkRole([ROLES.HOSPITAL, ROLES.ADMIN, ROLES.COORDINATOR]) of the routes
CheckRole(actor) == actor.role \in {"hospital", "admin", "coordinator"}

VARIABLES requests, matches, notifications, pc, loc, out, opsStarted,
          donorDocs, users, search, call, clock

\* the Request / Match side of the store and the workers serving it
lvars == <<requests, matches, notifications, pc, loc, out, opsStarted>>

\* the donor side of the store, the last answer of the match search, the
\* last application of one of its helper functions and Date.now() as the
\* auth handlers read it, in seconds
svars == <<donorDocs, users, search, call, clock>>

vars == <<requests, matches, notifications, pc, loc, out, opsStarted,
          donorDocs, users, search, call, clock>>

\* ------------------------------------------------------------ documents
NoRequest ==
  [exists |-> FALSE, hospital |-> 0, status |-> "", urgencyLevel |-> "",
   statusHistory |-> <<>>, matches |-> <<>>, rev |-> 0]

\* requestFields of createRequest; urgencyLevel is the path
\* recipientDetails.urgencyLevel, the detail the handlers read back
NewRequest(hospitalId, urgencyLevel) ==
  [exists |-> TRUE, hospital |-> hospitalId, status |-> "pending",
   urgencyLevel |-> urgencyLevel,
   statusHistory |-> <<>>, matches |-> <<>>, rev |-> 0]

\* the logistics paths updateLogistics writes; 0: the path is not set
LogisticsFields ==
  {"scheduledDate", "transportMethod", "transportDetails",
   "additionalInstructions"}

\* match.logistics || {}
NoLogistics == [f \in LogisticsFields |-> 0]

\* req.body of PATCH /api/matches/:id/logistics; 0: not given (falsy)
LogisticsBodies == [LogisticsFields -> 0..MaxLogisticsValue]

\* new Match({...}) of confirmMatch
NewMatch(r, d) ==
  [request |-> r, donor |-> d, status |-> "proposed",
   statusHistory |-> <<>>, outcome |-> "none", logistics |-> NoLogistics,
   rev |-> 0]

\* a handler's locals and, once it has answered, its response
IdleLoc ==
  [op |-> "none", req |-> 0, donor |-> 0, match |-> 0, target |-> "",
   successful |-> FALSE, from |-> "", loadRev |-> 0, lmatches |-> <<>>,
   code |-> 0, wrote |-> 0, pushed |-> 0, notified |-> 0, undelivered |-> 0,
   rBefore |-> "", rAfter |-> "", mAfter |-> "", mHist |-> 0, rHist |-> 0,
   logistics |-> NoLogistics, msg |-> "", urgencyLevel |-> "",
   account |-> 0, token |-> 0, password |-> 0, loadedPassword |-> 0,
   expires |-> 0]

\* ------------------------------------------------------ donor documents
\* enum of DonorSchema.bloodType
BloodTypes == {"A+", "A-", "B+", "B-", "AB+", "AB-", "O+", "O-"}

\* enum of DonorSchema.organDonatable.organType
OrganTypes ==
  {"kidney", "liver", "heart", "lung", "pancreas", "intestine", "cornea",
   "bone", "skin", "heart_valve"}

\* the values calculateMatchScore tells apart in donorProfile.availability
AvailabilityClasses == {"immediate", "flexible", "other"}

\* a Date path that is not set
NoDate == -1

\* new Donor({..., bloodType, organDonatable, isAvailable: true}) of
\* createDonorProfile; organDonatable is a set of (organType, isAvailable)
NewDonor(bloodType, organDonatable) ==
  [bloodType |-> bloodType, organDonatable |-> organDonatable,
   isAvailable |-> TRUE, lastDonationDate |-> NoDate]

\* the donorProfile paths of a User document that findPotentialMatches
\* queries and calculateMatchScore reads.  No handler writes them; a user
\* starts with the profile that agrees with the registered Donor document:
\* open to blood donation, an organ donor for the organ types offered.
\* distance stands for calculateDistance(hospital location, profile
\* location) rounded down to whole kilometres.
NewProfile(bloodType, organs, lastBlood, availability, located, distance) ==
  [bloodType |-> bloodType,
   availableForBloodDonation |-> TRUE,
   lastBloodDonationDate |-> lastBlood,
   organDonor |-> organs # {},
   organsForDonation |-> organs,
   availability |-> availability,
   located |-> located,
   distance |-> distance]

\* no search has been answered
NoSearch ==
  [code |-> 0, requestType |-> "", bloodType |-> "", organType |-> "",
   at |-> 0, results |-> <<>>]

\* no helper function has been applied
NoCall == [fn |-> "none"]

\* the donor side while only Requests and Matches are worked on
DonorsIdle ==
  /\ donorDocs = [d \in Donors |-> NewDonor("O+", {})]
  /\ users = [d \in Donors |->
                NewProfile("O+", {}, NoDate, "other", FALSE, 0)]
  /\ search = NoSearch
  /\ clock = 0
  /\ call = NoCall

\* the Request / Match side after construction
LifecycleIdle ==
  /\ requests = [r \in RequestIds |-> NoRequest]
  /\ matches = <<>>
  /\ notifications = <<>>
  /\ pc = [p \in Procs |-> "idle"]
  /\ loc = [p \in Procs |-> IdleLoc]
  /\ out = [p \in Procs |-> IdleLoc]
  /\ opsStarted = 0

Init ==
  /\ LifecycleIdle
  /\ DonorsIdle

\* res.status(code).json(...): the handler returns
Finish(p, code, l) ==
  /\ pc' = [pc EXCEPT ![p] = "idle"]
  /\ loc' = [loc EXCEPT ![p] = IdleLoc]
  /\ out' = [out EXCEPT ![p] = [l EXCEPT !.code = code]]

\* the handler goes on to its next await; a worker that has taken a new
\* call no longer holds the previous response
Goto(p, label, l) ==
  /\ pc' = [pc EXCEPT ![p] = label]
  /\ loc' = [loc EXCEPT ![p] = l]
  /\ out' = [out EXCEPT ![p] = IdleLoc]

\* a handler is entered
Begin(p) ==
  /\ pc[p] = "idle"
  /\ opsStarted < MaxOps
  /\ opsStarted' = opsStarted + 1

\* an answer given before anything is loaded into the handler's locals
Refuse(p, code, op) ==
  /\ pc' = [pc EXCEPT ![p] = "idle"]
  /\ loc' = [loc EXCEPT ![p] = IdleLoc]
  /\ out' = [out EXCEPT ![p] = [IdleLoc EXCEPT !.op = op, !.code = code]]

\* res.status(403).json({ msg }) of a handler's permission block
Deny(p, op, msg) ==
  /\ pc' = [pc EXCEPT ![p] = "idle"]
  /\ loc' = [loc EXCEPT ![p] = IdleLoc]
  /\ out' = [out EXCEPT ![p] = [IdleLoc EXCEPT !.op = op, !.code = 403,
                                               !.msg = msg]]

\* hospital._id.toString() === request.hospital.toString(), with a profile
OwnsRequest(actor, r) ==
  /\ actor.id # 0
  /\ requests[r].exists
  /\ actor.id = requests[r].hospital

\* the value a save leaves in a scalar path the handler assigned
SetPath(persisted, loaded, assigned) ==
  IF assigned # loaded THEN assigned ELSE persisted

\* ------------------------------------------------------- createRequest
\* a failed save answers 500 and stores nothing: no step
\* a removed Request keeps its id: r is free only if it was never used
CreateRequest(r, actor, bodyHospital, urgencyLevel) ==
  /\ CheckRole(actor)
  /\ requests[r] = NoRequest
  /\ \A q \in RequestIds : q < r => requests[q] # NoRequest
  /\ IF actor.role = "hospital" THEN actor.id # 0 ELSE bodyHospital # 0
  /\ requests' = [requests EXCEPT ![r] =
        NewRequest(IF actor.role = "hospital" THEN actor.id ELSE bodyHospital,
                   urgencyLevel)]
  /\ UNCHANGED <<matches, notifications, pc, loc, out, opsStarted>>

\* -------------------------------------------------------- confirmMatch
\* Match.findOne({request, donor}): any Match of the pair, whatever its status
ExistingMatch(r, d) ==
  \E i \in 1..Len(matches) : matches[i].request = r /\ matches[i].donor = d

\* Matches that running confirmMatch handlers may still create
PendingCreates ==
  Cardinality({q \in Procs : pc[q] \in {"cm_lookup", "cm_saveMatch"}})

\* Request.findById, Donor.findById, the hospital permission check
ConfirmMatch(p, r, d, actor) ==
  /\ Begin(p)
  /\ Len(matches) + PendingCreates < MaxMatches
  /\ LET l == [IdleLoc EXCEPT !.op = "confirmMatch", !.req = r, !.donor = d] IN
     IF ~CheckRole(actor) THEN Refuse(p, 403, l.op)
     ELSE IF ~requests[r].exists THEN Refuse(p, 404, l.op)
     ELSE IF actor.role = "hospital" /\ ~OwnsRequest(actor, r) THEN Refuse(p, 403, l.op)
     ELSE Goto(p, "cm_lookup",
               [l EXCEPT !.from = requests[r].status,
                         !.loadRev = requests[r].rev,
                         !.lmatches = requests[r].matches])
  /\ UNCHANGED <<requests, matches, notifications>>

\* the duplicate check
CmLookup(p) ==
  /\ pc[p] = "cm_lookup"
  /\ IF ExistingMatch(loc[p].req, loc[p].donor)
     THEN Finish(p, 400, loc[p])
     ELSE Goto(p, "cm_saveMatch", loc[p])
  /\ UNCHANGED <<requests, matches, notifications, opsStarted>>

\* await match.save()
CmSaveMatch(p, ok) ==
  /\ pc[p] = "cm_saveMatch"
  /\ IF ok
     THEN /\ matches' = Append(matches, NewMatch(loc[p].req, loc[p].donor))
          /\ Goto(p, "cm_saveRequest",
                  [loc[p] EXCEPT !.match = Len(matches) + 1,
                                 !.wrote = @ + 1,
                                 !.mAfter = "proposed"])
     ELSE /\ Finish(p, 500, loc[p])
          /\ UNCHANGED matches
  /\ UNCHANGED <<requests, notifications, opsStarted>>

\* request.status = 'matched'; request.matches = [...]; await request.save()
CmSaveRequest(p, ok) ==
  /\ pc[p] = "cm_saveRequest"
  /\ LET r == loc[p].req
         cur == requests[r] IN
     IF ok /\ cur.exists
     THEN /\ requests' = [requests EXCEPT ![r] =
               [cur EXCEPT !.status = SetPath(cur.status, loc[p].from, "matched"),
                           !.matches = Append(loc[p].lmatches, loc[p].match),
                           !.rev = @ + 1]]
          /\ Goto(p, "cm_notify",
                  [loc[p] EXCEPT !.wrote = @ + 1,
                                 !.rBefore = cur.status,
                                 !.rAfter = SetPath(cur.status, loc[p].from, "matched"),
                                 !.mHist = Len(matches[loc[p].match].statusHistory),
                                 !.rHist = Len(cur.statusHistory)])
     ELSE /\ Finish(p, 500, loc[p])
          /\ UNCHANGED requests
  /\ UNCHANGED <<matches, notifications, opsStarted>>

\* confirmMatch without the try/catch around the mailer call: a failed
\* delivery reaches the handler's catch block
CmNotifyUncaught(p, delivered) ==
  /\ pc[p] = "cm_notify"
  /\ notifications' = Append(notifications,
        [kind |-> "match", request |-> loc[p].req, match |-> loc[p].match,
         to |-> loc[p].donor])
  /\ Finish(p, IF delivered THEN 201 ELSE 500,
            [loc[p] EXCEPT !.notified = @ + 1,
                           !.undelivered = IF delivered THEN @ ELSE @ + 1])
  /\ UNCHANGED <<requests, matches, opsStarted>>

\* mailer.sendMatchNotificationEmail(donor, request) inside try/catch, then 201
CmNotify(p, delivered) ==
  /\ pc[p] = "cm_notify"
  /\ notifications' = Append(notifications,
        [kind |-> "match", request |-> loc[p].req, match |-> loc[p].match,
         to |-> loc[p].donor])
  /\ Finish(p, 201, [loc[p] EXCEPT !.notified = @ + 1,
                                   !.undelivered = IF delivered THEN @ ELSE @ + 1])
  /\ UNCHANGED <<requests, matches, opsStarted>>

\* --------------------------------------------------- updateMatchStatus
\* a permission block that lets every hospital user through
MayUpdateMatchAnyHospital(actor, m, target) ==
  IF actor.role \in {"admin", "coordinator", "hospital"} THEN TRUE
  ELSE IF actor.role = "donor"
       THEN /\ actor.id = matches[m].donor
            /\ target \in {"pending_confirmation", "confirmed", "rejected"}
  ELSE FALSE

\* the permission block of updateMatchStatus
MayUpdateMatch(actor, m, target) ==
  IF actor.role \in {"admin", "coordinator"} THEN TRUE
  ELSE IF actor.role = "hospital" THEN OwnsRequest(actor, matches[m].request)
  ELSE IF actor.role = "donor"
       THEN /\ actor.id = matches[m].donor
            /\ target \in {"pending_confirmation", "confirmed", "rejected"}
  ELSE FALSE

\* Match.findById and the permission check; then match.status = req.body.status
\* and the history push happen in memory
UpdateMatchStatus(p, m, target, actor) ==
  /\ Begin(p)
  /\ LET l == [IdleLoc EXCEPT !.op = "updateMatchStatus", !.match = m,
                              !.target = target] IN
     IF ~CheckRole(actor) THEN Refuse(p, 403, l.op)
     ELSE IF m > Len(matches) THEN Refuse(p, 404, l.op)
     ELSE IF ~MayUpdateMatch(actor, m, target)
          THEN Deny(p, l.op, "Not authorized to update this match")
     ELSE Goto(p, "ums_save",
               [l EXCEPT !.req = matches[m].request,
                         !.donor = matches[m].donor,
                         !.from = matches[m].status,
                         !.loadRev = matches[m].rev])
  /\ UNCHANGED <<requests, matches, notifications>>

\* await match.save(); a target other than rejected answers right after it
UmsSave(p, ok) ==
  /\ pc[p] = "ums_save"
  /\ LET m == loc[p].match
         cur == matches[m]
         new == [cur EXCEPT !.status = SetPath(cur.status, loc[p].from, loc[p].target),
                            !.statusHistory = Append(@, loc[p].target),
                            !.rev = @ + 1]
         l == [loc[p] EXCEPT !.wrote = @ + 1, !.pushed = @ + 1,
                             !.mAfter = new.status,
                             !.mHist = Len(new.statusHistory),
                             !.rBefore = requests[loc[p].req].status,
                             !.rAfter = requests[loc[p].req].status,
                             !.rHist = Len(requests[loc[p].req].statusHistory)] IN
     IF ok
     THEN /\ matches' = [matches EXCEPT ![m] = new]
          /\ IF loc[p].target = "rejected"
             THEN Goto(p, "ums_companion", l)
             ELSE Finish(p, 200, l)
     ELSE /\ Finish(p, 500, loc[p])
          /\ UNCHANGED matches
  /\ UNCHANGED <<requests, notifications, opsStarted>>

\* await Request.findByIdAndUpdate(match.request, { status: 'searching' })
UmsCompanion(p, ok) ==
  /\ pc[p] = "ums_companion"
  /\ LET r == loc[p].req
         cur == requests[r] IN
     IF ok
     THEN /\ requests' = [requests EXCEPT ![r] =
               IF cur.exists
               THEN [cur EXCEPT !.status = "searching", !.rev = @ + 1]
               ELSE cur]
          /\ Finish(p, 200,
                    [loc[p] EXCEPT !.wrote = IF cur.exists THEN @ + 1 ELSE @,
                                   !.rBefore = cur.status,
                                   !.rAfter = IF cur.exists THEN "searching" ELSE cur.status,
                                   !.rHist = Len(cur.statusHistory)])
     ELSE /\ Finish(p, 500, loc[p])
          /\ UNCHANGED requests
  /\ UNCHANGED <<matches, notifications, opsStarted>>

\* ------------------------------------------------- updateRequestStatus
\* Request.findById and the hospital permission check; then the status
\* assignment and the history push happen in memory
UpdateRequestStatus(p, r, target, actor) ==
  /\ Begin(p)
  /\ LET l == [IdleLoc EXCEPT !.op = "updateRequestStatus", !.req = r,
                              !.target = target] IN
     IF ~CheckRole(actor) THEN Refuse(p, 403, l.op)
     ELSE IF ~requests[r].exists THEN Refuse(p, 404, l.op)
     ELSE IF actor.role = "hospital" /\ ~OwnsRequest(actor, r) THEN Refuse(p, 403, l.op)
     ELSE Goto(p, "urs_save",
               [l EXCEPT !.from = requests[r].status,
                         !.loadRev = requests[r].rev])
  /\ UNCHANGED <<requests, matches, notifications>>

\* await request.save()
UrsSave(p, ok) ==
  /\ pc[p] = "urs_save"
  /\ LET r == loc[p].req
         cur == requests[r]
         new == [cur EXCEPT !.status = SetPath(cur.status, loc[p].from, loc[p].target),
                            !.statusHistory = Append(@, loc[p].target),
                            !.rev = @ + 1] IN
     IF ok /\ cur.exists
     THEN /\ requests' = [requests EXCEPT ![r] = new]
          /\ Finish(p, 200,
                    [loc[p] EXCEPT !.wrote = @ + 1, !.pushed = @ + 1,
                                   !.rBefore = cur.status,
                                   !.rAfter = new.status,
                                   !.rHist = Len(new.statusHistory)])
     ELSE /\ Finish(p, 500, loc[p])
          /\ UNCHANGED requests
  /\ UNCHANGED <<matches, notifications, opsStarted>>

\* ------------------------------------------------------- reportOutcome
\* the permission block of reportOutcome and of updateLogistics
MayReport(actor, m) ==
  IF actor.role \in {"admin", "coordinator"} THEN TRUE
  ELSE IF actor.role = "hospital" THEN OwnsRequest(actor, matches[m].request)
  ELSE FALSE

\* match.status = req.body.successful ? 'completed' : 'failed'
OutcomeMatchStatus(successful) == IF successful THEN "completed" ELSE "failed"

\* request.status = req.body.successful ? 'fulfilled' : 'searching'
OutcomeRequestStatus(successful) == IF successful THEN "fulfilled" ELSE "searching"

\* Match.findById and the permission check; outcome, status and the history
\* push are set in memory
ReportOutcome(p, m, successful, actor) ==
  /\ Begin(p)
  /\ LET l == [IdleLoc EXCEPT !.op = "reportOutcome", !.match = m,
                              !.successful = successful,
                              !.target = OutcomeMatchStatus(successful)] IN
     IF ~CheckRole(actor) THEN Refuse(p, 403, l.op)
     ELSE IF m > Len(matches) THEN Refuse(p, 404, l.op)
     ELSE IF ~MayReport(actor, m) THEN Refuse(p, 403, l.op)
     ELSE Goto(p, "ro_saveMatch",
               [l EXCEPT !.req = matches[m].request,
                         !.donor = matches[m].donor,
                         !.from = matches[m].status,
                         !.loadRev = matches[m].rev])
  /\ UNCHANGED <<requests, matches, notifications>>

\* await match.save()
RoSaveMatch(p, ok) ==
  /\ pc[p] = "ro_saveMatch"
  /\ LET m == loc[p].match
         cur == matches[m]
         new == [cur EXCEPT !.status = SetPath(cur.status, loc[p].from, loc[p].target),
                            !.statusHistory = Append(@, loc[p].target),
                            !.outcome = IF loc[p].successful THEN "successful"
                                        ELSE "unsuccessful",
                            !.rev = @ + 1] IN
     IF ok
     THEN /\ matches' = [matches EXCEPT ![m] = new]
          /\ Goto(p, "ro_loadRequest",
                  [loc[p] EXCEPT !.wrote = @ + 1, !.pushed = @ + 1,
                                 !.mAfter = new.status,
                                 !.mHist = Len(new.statusHistory)])
     ELSE /\ Finish(p, 500, loc[p])
          /\ UNCHANGED matches
  /\ UNCHANGED <<requests, notifications, opsStarted>>

\* const request = await Request.findById(match.request); if (request) ...
RoLoadRequest(p) ==
  /\ pc[p] = "ro_loadRequest"
  /\ LET cur == requests[loc[p].req] IN
     IF cur.exists
     THEN Goto(p, "ro_saveRequest", [loc[p] EXCEPT !.rBefore = cur.status])
     ELSE Finish(p, 200, loc[p])
  /\ UNCHANGED <<requests, matches, notifications, opsStarted>>

\* request.status = ...; await request.save()
RoSaveRequest(p, ok) ==
  /\ pc[p] = "ro_saveRequest"
  /\ LET r == loc[p].req
         cur == requests[r]
         new == [cur EXCEPT !.status = SetPath(cur.status, loc[p].rBefore,
                                               OutcomeRequestStatus(loc[p].successful)),
                            !.rev = @ + 1] IN
     IF ok /\ cur.exists
     THEN /\ requests' = [requests EXCEPT ![r] = new]
          /\ Finish(p, 200,
                    [loc[p] EXCEPT !.wrote = @ + 1,
                                   !.rAfter = new.status,
                                   !.rHist = Len(new.statusHistory)])
     ELSE /\ Finish(p, 500, loc[p])
          /\ UNCHANGED requests
  /\ UNCHANGED <<matches, notifications, opsStarted>>

\* ----------------------------------------------------- updateLogistics
\* the permission block of updateLogistics
MayUpdateLogistics(actor, m) ==
  IF actor.role \in {"admin", "coordinator"} THEN TRUE
  ELSE IF actor.role = "hospital" THEN OwnsRequest(actor, matches[m].request)
  ELSE FALSE

\* Match.findById, the permission check, then the given fields are set on
\* match.logistics in memory; the status of the Match is not consulted.
\* match.lastUpdated is a timestamp no handler reads and is left out.
UpdateLogistics(p, m, body, actor) ==
  /\ Begin(p)
  /\ LET l == [IdleLoc EXCEPT !.op = "updateLogistics", !.match = m] IN
     IF ~CheckRole(actor) THEN Refuse(p, 403, l.op)
     ELSE IF m > Len(matches) THEN Refuse(p, 404, l.op)
     ELSE IF ~MayUpdateLogistics(actor, m)
          THEN Deny(p, l.op, "Not authorized to update logistics for this match")
     ELSE Goto(p, "ul_save",
               [l EXCEPT !.req = matches[m].request,
                         !.donor = matches[m].donor,
                         !.from = matches[m].status,
                         !.loadRev = matches[m].rev,
                         !.logistics =
                            [f \in LogisticsFields |->
                               IF body[f] # 0 THEN body[f]
                               ELSE matches[m].logistics[f]]])
  /\ UNCHANGED <<requests, matches, notifications>>

\* await match.save(), then res.json(match)
UlSave(p, ok) ==
  /\ pc[p] = "ul_save"
  /\ LET m == loc[p].match
         new == [matches[m] EXCEPT !.logistics = loc[p].logistics,
                                   !.rev = @ + 1]
         l == [loc[p] EXCEPT !.wrote = @ + 1, !.mAfter = new.status,
                             !.mHist = Len(new.statusHistory)] IN
     IF ok
     THEN /\ matches' = [matches EXCEPT ![m] = new]
          /\ Finish(p, 200, l)
     ELSE /\ Finish(p, 500, loc[p])
          /\ UNCHANGED matches
  /\ UNCHANGED <<requests, notifications, opsStarted>>

\* ------------------------------------------------------- updateRequest
\* Request.findById, the hospital permission check, the status test; then
\* request.recipientDetails and request.recipientDetails.urgencyLevel are
\* assigned in memory from the given paths of the body
UpdateRequest(p, r, body, actor) ==
  /\ Begin(p)
  /\ LET l == [IdleLoc EXCEPT !.op = "updateRequest", !.req = r] IN
     IF ~CheckRole(actor) THEN Refuse(p, 403, l.op)
     ELSE IF ~requests[r].exists THEN Refuse(p, 404, l.op)
     ELSE IF actor.role = "hospital" /\ ~OwnsRequest(actor, r)
          THEN Deny(p, l.op, "Not authorized to update this request")
     ELSE IF requests[r].status \in {"fulfilled", "cancelled"}
          THEN Finish(p, 400, [l EXCEPT !.from = requests[r].status,
                                        !.rBefore = requests[r].status,
                                        !.rAfter = requests[r].status])
     ELSE Goto(p, "ur_save",
               [l EXCEPT !.from = requests[r].status,
                         !.loadRev = requests[r].rev,
                         !.target = requests[r].urgencyLevel,
                         !.urgencyLevel =
                            IF body.urgencyLevel # "" THEN body.urgencyLevel
                            ELSE IF body.recipientDetails # ""
                                 THEN body.recipientDetails
                            ELSE requests[r].urgencyLevel])
  /\ UNCHANGED <<requests, matches, notifications>>

\* await request.save(), then res.json(request); target holds the urgency
\* level the handler loaded
UrSave(p, ok) ==
  /\ pc[p] = "ur_save"
  /\ LET r == loc[p].req
         cur == requests[r]
         new == [cur EXCEPT !.urgencyLevel =
                               SetPath(cur.urgencyLevel, loc[p].target,
                                       loc[p].urgencyLevel),
                            !.rev = @ + 1] IN
     IF ok /\ cur.exists
     THEN /\ requests' = [requests EXCEPT ![r] = new]
          /\ Finish(p, 200, [loc[p] EXCEPT !.wrote = @ + 1,
                                           !.rBefore = cur.status,
                                           !.rAfter = new.status,
                                           !.rHist = Len(new.statusHistory)])
     ELSE /\ Finish(p, 500, loc[p])
          /\ UNCHANGED requests
  /\ UNCHANGED <<matches, notifications, opsStarted>>

\* ------------------------------------------------------- deleteRequest
\* Request.findById, the hospital permission check, the test of the loaded
\* matches list
DeleteRequest(p, r, actor) ==
  /\ Begin(p)
  /\ LET l == [IdleLoc EXCEPT !.op = "deleteRequest", !.req = r] IN
     IF ~requests[r].exists THEN Refuse(p, 404, l.op)
     ELSE IF actor.role = "hospital" /\ ~OwnsRequest(actor, r)
          THEN Deny(p, l.op, "Not authorized to delete this request")
     ELSE IF Len(requests[r].matches) > 0
          THEN Finish(p, 400, [l EXCEPT !.lmatches = requests[r].matches])
     ELSE Goto(p, "dr_remove",
               [l EXCEPT !.from = requests[r].status,
                         !.loadRev = requests[r].rev,
                         !.lmatches = requests[r].matches])
  /\ UNCHANGED <<requests, matches, notifications>>

\* await request.remove(), then res.json({ msg: 'Request removed' }); the
\* removed document leaves the collection, its id is not used again
DrRemove(p, ok) ==
  /\ pc[p] = "dr_remove"
  /\ IF ok
     THEN /\ requests' = [requests EXCEPT ![loc[p].req].exists = FALSE]
          /\ Finish(p, 200, [loc[p] EXCEPT
                               !.wrote = IF requests[loc[p].req].exists
                                         THEN @ + 1 ELSE @])
     ELSE /\ Finish(p, 500, loc[p])
          /\ UNCHANGED requests
  /\ UNCHANGED <<matches, notifications, opsStarted>>

\* ------------------------------------------------------ password reset
\* the registered users the reset handlers look up
Accounts == 1..NumAccounts

\* the passwords the clients choose; 0 is the password set at registration
Passwords == 1..NumPasswords

\* a reset token that was never issued
BogusToken == -1

\* 3600000 ms, the validity of a reset token, in seconds
ResetValiditySeconds == 3600

\* the auth paths of a User document; 0 and NoDate: the path is not set
NewUser ==
  [password |-> 0, resetPasswordToken |-> 0, resetPasswordExpires |-> NoDate]

\* Date.now() advances
Tick ==
  /\ clock < MaxTicks * TickSeconds
  /\ clock' = clock + TickSeconds
  /\ UNCHANGED <<donorDocs, users, search, call>>

\* User.findOne({ email }); then crypto.randomBytes gives a token no call
\* has drawn before (the number of this call), and the token and Date.now() + 3600000 are set in memory
ForgotPassword(p, account) ==
  /\ Begin(p)
  /\ LET l == [IdleLoc EXCEPT !.op = "forgotPassword", !.account = account] IN
     IF account \notin DOMAIN users THEN Refuse(p, 404, l.op)
     ELSE Goto(p, "fp_save",
               [l EXCEPT !.token = opsStarted + 1,
                         !.expires = clock + ResetValiditySeconds])
  /\ UNCHANGED <<requests, matches, notifications>>

\* await user.save()
FpSave(p, ok) ==
  /\ pc[p] = "fp_save"
  /\ IF ok
     THEN /\ users' = [users EXCEPT
               ![loc[p].account].resetPasswordToken = loc[p].token,
               ![loc[p].account].resetPasswordExpires = loc[p].expires]
          /\ Goto(p, "fp_send", [loc[p] EXCEPT !.wrote = @ + 1])
     ELSE /\ Finish(p, 500, loc[p])
          /\ UNCHANGED users
  /\ UNCHANGED <<requests, matches, notifications, opsStarted>>

\* await sendEmail({ to: email, ... resetUrl ... }); a failed delivery
\* reaches the catch block
FpSend(p, delivered) ==
  /\ pc[p] = "fp_send"
  /\ IF delivered
     THEN /\ notifications' = Append(notifications,
                [kind |-> "reset", to |-> loc[p].account,
                 token |-> loc[p].token])
          /\ Finish(p, 200, [loc[p] EXCEPT !.notified = @ + 1])
     ELSE /\ Finish(p, 500, [loc[p] EXCEPT !.undelivered = @ + 1])
          /\ UNCHANGED notifications
  /\ UNCHANGED <<requests, matches, opsStarted>>

\* the reset tokens the clients hold: the ones mailed to them
MailedTokens ==
  {notifications[i].token : i \in 1..Len(notifications)}

\* User.findOne({ resetPasswordToken: token,
\*                resetPasswordExpires: { $gt: Date.now() } })
FindByResetToken(token) ==
  {u \in DOMAIN users :
     /\ users[u].resetPasswordToken = token
     /\ users[u].resetPasswordExpires # NoDate
     /\ users[u].resetPasswordExpires > clock}

\* the lookup of resetPassword; then the password is assigned and the two
\* reset paths are unset in memory
ResetPassword(p, token, password) ==
  /\ Begin(p)
  /\ LET l == [IdleLoc EXCEPT !.op = "resetPassword", !.token = token,
                              !.password = password] IN
     IF FindByResetToken(token) = {} THEN Finish(p, 400, l)
     ELSE \E u \in FindByResetToken(token) :
            Goto(p, "rp_save",
                 [l EXCEPT !.account = u,
                           !.loadedPassword = users[u].password])
  /\ UNCHANGED <<requests, matches, notifications>>

\* await user.save(), then res.json({ msg: 'Password reset successful' })
RpSave(p, ok) ==
  /\ pc[p] = "rp_save"
  /\ IF ok
     THEN /\ users' = [users EXCEPT
               ![loc[p].account] =
                  [password |-> SetPath(users[loc[p].account].password,
                                        loc[p].loadedPassword,
                                        loc[p].password),
                   resetPasswordToken |-> 0,
                   resetPasswordExpires |-> NoDate]]
          /\ Finish(p, 200, [loc[p] EXCEPT !.wrote = @ + 1])
     ELSE /\ Finish(p, 500, loc[p])
          /\ UNCHANGED users
  /\ UNCHANGED <<requests, matches, notifications, opsStarted>>

\* ------------------------------------------------- findPotentialMatches
\* 24 * 60 * 60, the seconds of a day; Date values are counted in seconds
DaySeconds == 86400

\* 56 * 24 * 60 * 60 (* 1000 in the source, which counts milliseconds)
DeferralSeconds == 56 * DaySeconds

\* a table keyed by the donor's type where the requested type is expected
getCompatibleBloodTypesByDonor(requestedType) ==
  CASE requestedType = "A+" -> {"A+", "AB+"}
    [] requestedType = "A-" -> {"A+", "A-", "AB+", "AB-"}
    [] requestedType = "B+" -> {"B+", "AB+"}
    [] requestedType = "B-" -> {"B+", "B-", "AB+", "AB-"}
    [] requestedType = "AB+" -> {"AB+"}
    [] requestedType = "AB-" -> {"AB+", "AB-"}
    [] requestedType = "O+" -> {"A+", "B+", "AB+", "O+"}
    [] requestedType = "O-" ->
         {"A+", "A-", "B+", "B-", "AB+", "AB-", "O+", "O-"}
    [] OTHER -> {}

\* the compatibility table of getCompatibleBloodTypes, keyed by the requested
\* type; compatibility[requestedType] || []
getCompatibleBloodTypes(requestedType) ==
  CASE requestedType = "A+" -> {"A+", "A-", "O+", "O-"}
    [] requestedType = "A-" -> {"A-", "O-"}
    [] requestedType = "B+" -> {"B+", "B-", "O+", "O-"}
    [] requestedType = "B-" -> {"B-", "O-"}
    [] requestedType = "AB+" ->
         {"A+", "A-", "B+", "B-", "AB+", "AB-", "O+", "O-"}
    [] requestedType = "AB-" -> {"A-", "B-", "AB-", "O-"}
    [] requestedType = "O+" -> {"O+", "O-"}
    [] requestedType = "O-" -> {"O-"}
    [] OTHER -> {}

\* a score whose availability part has no default branch
calculateMatchScoreNoDefault(request, donorProfile) ==
  LET blood ==
        IF /\ request.bloodType # "none"
           /\ donorProfile.bloodType # "none"
           /\ donorProfile.bloodType
                \in getCompatibleBloodTypes(request.bloodType)
        THEN 40 ELSE 0
      location ==
        IF request.located /\ donorProfile.located
        THEN IF donorProfile.distance < 10 THEN 30
             ELSE IF donorProfile.distance < 25 THEN 20
             ELSE IF donorProfile.distance < 50 THEN 10
             ELSE 0
        ELSE 0
      availability ==
        IF donorProfile.availability = "immediate" THEN 30
        ELSE IF donorProfile.availability = "flexible" THEN 20
        ELSE 0
      score == blood + location + availability
  IN IF score < 100 THEN score ELSE 100

\* calculateMatchScore(request, donorProfile).  request.located stands for
\* request.hospital && request.hospital.location.
calculateMatchScore(request, donorProfile) ==
  LET blood ==
        IF /\ request.bloodType # "none"
           /\ donorProfile.bloodType # "none"
           /\ donorProfile.bloodType
                \in getCompatibleBloodTypes(request.bloodType)
        THEN 40 ELSE 0
      location ==
        IF request.located /\ donorProfile.located
        THEN IF donorProfile.distance < 10 THEN 30
             ELSE IF donorProfile.distance < 25 THEN 20
             ELSE IF donorProfile.distance < 50 THEN 10
             ELSE 0
        ELSE 0
      availability ==
        IF donorProfile.availability = "immediate" THEN 30
        ELSE IF donorProfile.availability = "flexible" THEN 20
        ELSE 10
      score == blood + location + availability
  IN IF score < 100 THEN score ELSE 100

\* matchCriteria of findPotentialMatches applied to one user's donorProfile;
\* a $lt condition matches no document whose path is not set, and $in over
\* an empty list matches no document
MatchCriteria(request, now, donorProfile) ==
  IF request.requestType = "blood"
  THEN /\ donorProfile.bloodType \in getCompatibleBloodTypes(request.bloodType)
       /\ donorProfile.availableForBloodDonation
       /\ donorProfile.lastBloodDonationDate # NoDate
       /\ donorProfile.lastBloodDonationDate < now - DeferralSeconds
  ELSE IF request.requestType = "organ"
  THEN /\ donorProfile.organDonor
       /\ request.organType \in donorProfile.organsForDonation
       /\ donorProfile.bloodType \in getCompatibleBloodTypes(request.bloodType)
  ELSE TRUE

\* the organ types of the model's Requests and donor registrations
OrganList == <<"kidney", "liver", "heart", "lung", "pancreas">>

RequestedOrgans == {OrganList[i] : i \in 1..NumRequestedOrgans}

OfferedOrgans == {OrganList[i] : i \in 1..(NumRequestedOrgans - 1)}

\* the values of Date.now() at which searches run: around the instant the
\* deferral of a donation made at time 0 ends
SearchTimes == {DeferralSeconds - 1 + i : i \in 0..(NumSearchTimes - 1)}

\* req.body.date of a donation record
DonationDates == {DeferralSeconds - 1}

\* the Requests createRequest stores: a blood request carries bloodType, an
\* organ request carries organType and no bloodType
StoredRequests ==
  [requestType : {"blood"}, bloodType : BloodTypes, organType : {"none"},
   hospital : Hospitals]
    \cup [requestType : {"organ"}, bloodType : {"none"},
          organType : RequestedOrgans, hospital : Hospitals]

\* every ordering of a finite set
Orderings(S) ==
  {q \in [1..Cardinality(S) -> S] :
     \A i, j \in 1..Cardinality(S) : i # j => q[i] # q[j]}

\* POST /api/matches/search for a stored Request at time now.  Every user of
\* the model is an active donor user.  The Request is loaded without
\* populate, so request.hospital is an id and has no location.  User.find
\* has no sort: the documents come in an order the store chooses.
FindPotentialMatches(request, now, actor) ==
  /\ IF ~CheckRole(actor)
     THEN search' = [NoSearch EXCEPT !.code = 403]
     ELSE IF actor.role = "hospital" /\ actor.id # request.hospital
     THEN search' = [NoSearch EXCEPT !.code = 403]
     ELSE \E order \in Orderings({d \in DOMAIN users :
                                    MatchCriteria(request, now, users[d])}) :
            search' =
              [code |-> 200, requestType |-> request.requestType,
               bloodType |-> request.bloodType,
               organType |-> request.organType, at |-> now,
               results |->
                 [i \in 1..Len(order) |->
                    [donorId |-> order[i],
                     bloodType |-> users[order[i]].bloodType,
                     matchScore |->
                       calculateMatchScore(
                         [bloodType |-> request.bloodType, located |-> FALSE],
                         users[order[i]])]]]
  /\ UNCHANGED <<donorDocs, users, call, clock>>

\* PUT /api/donors/:id/availability by an admin or by the donor's own user:
\* donor.isAvailable = isAvailable on the Donor document.  A write to the
\* donor side makes the recorded search answer a thing of the past.
UpdateAvailability(d, isAvailable, actor) ==
  /\ actor.role = "admin" \/ (actor.role = "donor" /\ actor.id = d)
  /\ donorDocs' = [donorDocs EXCEPT ![d].isAvailable = isAvailable]
  /\ search' = NoSearch
  /\ UNCHANGED <<users, call, clock>>

\* POST /api/donors/:id/donations: donor.lastDonationDate = date on the
\* Donor document
AddDonationRecord(d, date) ==
  /\ donorDocs' = [donorDocs EXCEPT ![d].lastDonationDate = date]
  /\ search' = NoSearch
  /\ UNCHANGED <<users, call, clock>>

Next ==
  \/ \E r \in RequestIds, a \in Actors, h \in Hospitals \cup {0} :
       CreateRequest(r, a, h, "routine")
         /\ UNCHANGED svars
  \/ \E p \in Procs, r \in RequestIds, d \in Donors, a \in Actors :
       ConfirmMatch(p, r, d, a)
         /\ UNCHANGED svars
  \/ \E p \in Procs : CmLookup(p)
         /\ UNCHANGED svars
  \/ \E p \in Procs, ok \in BOOLEAN : CmSaveMatch(p, ok)
         /\ UNCHANGED svars
  \/ \E p \in Procs, ok \in BOOLEAN : CmSaveRequest(p, ok)
         /\ UNCHANGED svars
  \/ \E p \in Procs, delivered \in BOOLEAN : CmNotify(p, delivered)
         /\ UNCHANGED svars
  \/ \E p \in Procs, m \in MatchIds, t \in MatchStatuses, a \in Actors :
       UpdateMatchStatus(p, m, t, a)
         /\ UNCHANGED svars
  \/ \E p \in Procs, ok \in BOOLEAN : UmsSave(p, ok)
         /\ UNCHANGED svars
  \/ \E p \in Procs, ok \in BOOLEAN : UmsCompanion(p, ok)
         /\ UNCHANGED svars
  \/ \E p \in Procs, r \in RequestIds, t \in RequestStatuses, a \in Actors :
       UpdateRequestStatus(p, r, t, a)
         /\ UNCHANGED svars
  \/ \E p \in Procs, ok \in BOOLEAN : UrsSave(p, ok)
         /\ UNCHANGED svars
  \/ \E p \in Procs, m \in MatchIds, s \in BOOLEAN, a \in Actors :
       ReportOutcome(p, m, s, a)
         /\ UNCHANGED svars
  \/ \E p \in Procs, ok \in BOOLEAN : RoSaveMatch(p, ok)
         /\ UNCHANGED svars
  \/ \E p \in Procs : RoLoadRequest(p)
         /\ UNCHANGED svars
  \/ \E p \in Procs, ok \in BOOLEAN : RoSaveRequest(p, ok)
         /\ UNCHANGED svars

Spec == Init /\ [][Next]_vars

\* donors registered with a blood type and at most one organ offered; the
\* profile carries a blood donation at time 0 or none
InitSearch ==
  /\ LifecycleIdle
  /\ \E bt \in [SearchDonors -> BloodTypes],
        offer \in [SearchDonors -> {{}} \cup {{o} : o \in OfferedOrgans}],
        last \in [SearchDonors -> {NoDate, 0}] :
       /\ donorDocs =
            [d \in SearchDonors |->
               NewDonor(bt[d], {[organType |-> o, isAvailable |-> TRUE] :
                                  o \in offer[d]})]
       /\ users =
            [d \in SearchDonors |->
               NewProfile(bt[d], offer[d], last[d], "immediate", TRUE, 0)]
  /\ search = NoSearch
  /\ clock = 0
  /\ call = NoCall

\* the clients search candidates for stored Requests while donors change
\* their availability and record donations
NextSearch ==
  \/ \E request \in StoredRequests, now \in SearchTimes, a \in Actors :
       FindPotentialMatches(request, now, a)
         /\ UNCHANGED lvars
  \/ \E d \in SearchDonors, isAvailable \in BOOLEAN, a \in Actors :
       UpdateAvailability(d, isAvailable, a)
         /\ UNCHANGED lvars
  \/ \E d \in SearchDonors, date \in DonationDates :
       AddDonationRecord(d, date)
         /\ UNCHANGED lvars

SpecSearch == InitSearch /\ [][NextSearch]_vars

\* ------------------------------------------------ ranking of candidates
\* the donor users registered while candidates are ranked
RankedDonors == 1..NumRankedDonors

\* the blood types of the ranked donors and of the Requests searched for
RankedBloodTypes == {"O-", "A+"}

\* whole kilometres between the hospital of the Request and a donor: two
\* distances under 10 km and the first distance of every later tier
RankedDistances == {3, 5, 10, 25, 50}

\* Date.now() of a search 100 days after the donation on the profiles
RankingTimes == {100 * DaySeconds}

\* donors with a location and a blood donation at time 0 on the profile
InitRanking ==
  /\ LifecycleIdle
  /\ \E bt \in [RankedDonors -> RankedBloodTypes],
        av \in [RankedDonors -> AvailabilityClasses],
        km \in [RankedDonors -> RankedDistances] :
       /\ donorDocs = [d \in RankedDonors |-> NewDonor(bt[d], {})]
       /\ users =
            [d \in RankedDonors |->
               NewProfile(bt[d], {}, 0, av[d], TRUE, km[d])]
  /\ search = NoSearch
  /\ clock = 0
  /\ call = NoCall

\* the clients search candidates for stored blood Requests
NextRanking ==
  \E request \in StoredRequests, now \in RankingTimes, a \in Actors :
    /\ request.requestType = "blood"
    /\ request.bloodType \in RankedBloodTypes
    /\ FindPotentialMatches(request, now, a)
    /\ UNCHANGED lvars

SpecRanking == InitRanking /\ [][NextRanking]_vars

\* ---------------------------------------------- getCompatibleBloodTypes
\* a requested type (none: the Request carries no bloodType) and the type
\* of a donor to look up in the answer
InitCompatible ==
  /\ LifecycleIdle
  /\ donorDocs = [d \in Donors |-> NewDonor("O+", {})]
  /\ users = [d \in Donors |->
                NewProfile("O+", {}, NoDate, "other", FALSE, 0)]
  /\ search = NoSearch
  /\ clock = 0
  /\ \E requestedType \in BloodTypes \cup {"none"}, donorType \in BloodTypes :
       call = [fn |-> "getCompatibleBloodTypes",
               requestedType |-> requestedType, donorType |-> donorType,
               done |-> FALSE, ret |-> {}]

\* compatibleTypes = getCompatibleBloodTypes(request.bloodType)
ApplyCompatible ==
  /\ call.fn = "getCompatibleBloodTypes"
  /\ ~call.done
  /\ call' = [call EXCEPT !.done = TRUE,
                          !.ret = getCompatibleBloodTypes(call.requestedType)]
  /\ UNCHANGED <<donorDocs, users, search, clock>>

NextCompatible == ApplyCompatible /\ UNCHANGED lvars

SpecCompatible == InitCompatible /\ [][NextCompatible]_vars

\* -------------------------------------------------- calculateMatchScore
\* a request (with or without blood type, its hospital populated with a
\* location or not) and a donor profile; a distance exists when both sides
\* have a location
InitScore ==
  /\ LifecycleIdle
  /\ donorDocs = [d \in Donors |-> NewDonor("O+", {})]
  /\ users = [d \in Donors |->
                NewProfile("O+", {}, NoDate, "other", FALSE, 0)]
  /\ search = NoSearch
  /\ clock = 0
  /\ \E requested \in BloodTypes \cup {"none"}, rLocated \in BOOLEAN,
        bt \in BloodTypes \cup {"none"}, av \in AvailabilityClasses,
        dLocated \in BOOLEAN, distance \in 0..MaxDistance :
       /\ (rLocated /\ dLocated) \/ distance = 0
       /\ call = [fn |-> "calculateMatchScore",
                  request |-> [bloodType |-> requested, located |-> rLocated],
                  donorProfile |->
                    NewProfile(bt, {}, NoDate, av, dLocated, distance),
                  done |-> FALSE, ret |-> 0]

\* matchScore: calculateMatchScore(request, donor.donorProfile)
ApplyScore ==
  /\ call.fn = "calculateMatchScore"
  /\ ~call.done
  /\ call' = [call EXCEPT !.done = TRUE,
                          !.ret = calculateMatchScore(call.request,
                                                      call.donorProfile)]
  /\ UNCHANGED <<donorDocs, users, search, clock>>

NextScore == ApplyScore /\ UNCHANGED lvars

SpecScore == InitScore /\ [][NextScore]_vars

\* the clients propose Matches and change their status; the store fails in
\* updateMatchStatus only
NextStatus ==
  \/ \E r \in RequestIds, a \in Actors, h \in Hospitals \cup {0} :
       CreateRequest(r, a, h, "routine")
         /\ UNCHANGED svars
  \/ \E p \in Procs, r \in RequestIds, d \in Donors, a \in Actors :
       ConfirmMatch(p, r, d, a)
         /\ UNCHANGED svars
  \/ \E p \in Procs : CmLookup(p)
         /\ UNCHANGED svars
  \/ \E p \in Procs : CmSaveMatch(p, TRUE)
         /\ UNCHANGED svars
  \/ \E p \in Procs : CmSaveRequest(p, TRUE)
         /\ UNCHANGED svars
  \/ \E p \in Procs : CmNotify(p, TRUE)
         /\ UNCHANGED svars
  \/ \E p \in Procs, m \in MatchIds, t \in MatchStatuses, a \in Actors :
       UpdateMatchStatus(p, m, t, a)
         /\ UNCHANGED svars
  \/ \E p \in Procs, ok \in BOOLEAN : UmsSave(p, ok)
         /\ UNCHANGED svars
  \/ \E p \in Procs, ok \in BOOLEAN : UmsCompanion(p, ok)
         /\ UNCHANGED svars

SpecStatus == Init /\ [][NextStatus]_vars

\* the clients propose Matches, change their status and edit their
\* logistics; the store and the mailer fail in updateLogistics only
NextLogistics ==
  \/ \E r \in RequestIds, a \in Actors, h \in Hospitals \cup {0} :
       CreateRequest(r, a, h, "routine")
         /\ UNCHANGED svars
  \/ \E p \in Procs, r \in RequestIds, d \in Donors, a \in Actors :
       ConfirmMatch(p, r, d, a)
         /\ UNCHANGED svars
  \/ \E p \in Procs : CmLookup(p)
         /\ UNCHANGED svars
  \/ \E p \in Procs : CmSaveMatch(p, TRUE)
         /\ UNCHANGED svars
  \/ \E p \in Procs : CmSaveRequest(p, TRUE)
         /\ UNCHANGED svars
  \/ \E p \in Procs : CmNotify(p, TRUE)
         /\ UNCHANGED svars
  \/ \E p \in Procs, m \in MatchIds, t \in MatchStatuses, a \in Actors :
       UpdateMatchStatus(p, m, t, a)
         /\ UNCHANGED svars
  \/ \E p \in Procs : UmsSave(p, TRUE)
         /\ UNCHANGED svars
  \/ \E p \in Procs : UmsCompanion(p, TRUE)
         /\ UNCHANGED svars
  \/ \E p \in Procs, m \in MatchIds, b \in LogisticsBodies, a \in Actors :
       UpdateLogistics(p, m, b, a)
         /\ UNCHANGED svars
  \/ \E p \in Procs, ok \in BOOLEAN : UlSave(p, ok)
         /\ UNCHANGED svars

SpecLogistics == Init /\ [][NextLogistics]_vars

\* the clients file Requests of every urgency level, propose Matches and
\* change their status; the mailer may fail, the store does not
NextNotify ==
  \/ \E r \in RequestIds, a \in Actors, h \in Hospitals \cup {0},
         u \in UrgencyLevels :
       CreateRequest(r, a, h, u)
         /\ UNCHANGED svars
  \/ \E p \in Procs, r \in RequestIds, d \in Donors, a \in Actors :
       ConfirmMatch(p, r, d, a)
         /\ UNCHANGED svars
  \/ \E p \in Procs : CmLookup(p)
         /\ UNCHANGED svars
  \/ \E p \in Procs : CmSaveMatch(p, TRUE)
         /\ UNCHANGED svars
  \/ \E p \in Procs : CmSaveRequest(p, TRUE)
         /\ UNCHANGED svars
  \/ \E p \in Procs, delivered \in BOOLEAN : CmNotify(p, delivered)
         /\ UNCHANGED svars
  \/ \E p \in Procs, m \in MatchIds, t \in MatchStatuses, a \in Actors :
       UpdateMatchStatus(p, m, t, a)
         /\ UNCHANGED svars
  \/ \E p \in Procs : UmsSave(p, TRUE)
         /\ UNCHANGED svars
  \/ \E p \in Procs : UmsCompanion(p, TRUE)
         /\ UNCHANGED svars

SpecNotify == Init /\ [][NextNotify]_vars

\* the clients propose Matches for a Request and delete it; the store is up
NextDelete ==
  \/ \E r \in RequestIds, a \in Actors, h \in Hospitals \cup {0} :
       CreateRequest(r, a, h, "routine")
         /\ UNCHANGED svars
  \/ \E p \in Procs, r \in RequestIds, d \in Donors, a \in Actors :
       ConfirmMatch(p, r, d, a)
         /\ UNCHANGED svars
  \/ \E p \in Procs : CmLookup(p)
         /\ UNCHANGED svars
  \/ \E p \in Procs : CmSaveMatch(p, TRUE)
         /\ UNCHANGED svars
  \/ \E p \in Procs : CmSaveRequest(p, TRUE)
         /\ UNCHANGED svars
  \/ \E p \in Procs : CmNotify(p, TRUE)
         /\ UNCHANGED svars
  \/ \E p \in Procs, r \in RequestIds, a \in Actors : DeleteRequest(p, r, a)
         /\ UNCHANGED svars
  \/ \E p \in Procs : DrRemove(p, TRUE)
         /\ UNCHANGED svars

SpecDelete == Init /\ [][NextDelete]_vars

\* the clients file routine Requests, change their status and edit their
\* details; the store fails in updateRequest only
NextDetails ==
  \/ \E r \in RequestIds, a \in Actors, h \in Hospitals \cup {0} :
       CreateRequest(r, a, h, "routine")
         /\ UNCHANGED svars
  \/ \E p \in Procs, r \in RequestIds, t \in RequestStatuses, a \in Actors :
       UpdateRequestStatus(p, r, t, a)
         /\ UNCHANGED svars
  \/ \E p \in Procs : UrsSave(p, TRUE)
         /\ UNCHANGED svars
  \/ \E p \in Procs, r \in RequestIds, b \in RequestBodies, a \in Actors :
       UpdateRequest(p, r, b, a)
         /\ UNCHANGED svars
  \/ \E p \in Procs, ok \in BOOLEAN : UrSave(p, ok)
         /\ UNCHANGED svars

SpecDetails == Init /\ [][NextDetails]_vars

\* the registered users, before any reset was asked for
InitReset ==
  /\ LifecycleIdle
  /\ donorDocs = <<>>
  /\ users = [u \in Accounts |-> NewUser]
  /\ search = NoSearch
  /\ clock = 0
  /\ call = NoCall

\* the clients ask for reset mails and use the tokens mailed to them while
\* time passes
NextReset ==
  \/ Tick /\ UNCHANGED lvars
  \/ \E p \in Procs, u \in Accounts \cup {0} :
       ForgotPassword(p, u)
         /\ UNCHANGED svars
  \/ \E p \in Procs, ok \in BOOLEAN : FpSave(p, ok)
         /\ UNCHANGED <<donorDocs, search, call, clock>>
  \/ \E p \in Procs, delivered \in BOOLEAN : FpSend(p, delivered)
         /\ UNCHANGED svars
  \/ \E p \in Procs, t \in MailedTokens \cup {BogusToken}, w \in Passwords :
       ResetPassword(p, t, w)
         /\ UNCHANGED svars
  \/ \E p \in Procs, ok \in BOOLEAN : RpSave(p, ok)
         /\ UNCHANGED <<donorDocs, search, call, clock>>

SpecReset == InitReset /\ [][NextReset]_vars
\* ================================================================ claims
\* the Request graph of the lifecycle design
RequestTerminal == {"completed", "cancelled"}

RequestGraph ==
  {<<"pending", "searching">>, <<"searching", "matched">>,
   <<"matched", "in_progress">>, <<"in_progress", "completed">>,
   <<"matched", "searching">>}
    \cup {<<s, "cancelled">> : s \in RequestStatuses \ RequestTerminal}

\* the Match graph of the lifecycle design
MatchTerminal == {"transplanted", "rejected", "failed"}

MatchGraph ==
  {<<"proposed", "pending_confirmation">>, <<"pending_confirmation", "confirmed">>,
   <<"confirmed", "in_transit">>, <<"in_transit", "delivered">>,
   <<"delivered", "transplanted">>,
   <<"proposed", "rejected">>, <<"pending_confirmation", "rejected">>}
    \cup {<<s, "failed">> : s \in MatchStatuses \ MatchTerminal}

\* C1: an updateRequestStatus call that reached the transition answers 200
\* and appends exactly one history entry when (loaded status, target) is an
\* edge of the Request graph, and otherwise answers 400 (InvalidTransition)
\* without writing anything.
C1_RequestTransitionGraph ==
  \A p \in Procs :
    (out[p].op = "updateRequestStatus" /\ out[p].code \in {200, 400}) =>
      IF <<out[p].from, out[p].target>> \in RequestGraph
      THEN out[p].code = 200 /\ out[p].pushed = 1
      ELSE out[p].code = 400 /\ out[p].wrote = 0

\* C2: in every step, a Match whose status changes moves along an edge of
\* the Match graph, whichever handler writes it.
C2_MatchStatusFollowsGraph ==
  [][\A m \in 1..Len(matches) :
       matches'[m].status # matches[m].status =>
         <<matches[m].status, matches'[m].status>> \in MatchGraph]_vars

\* C3: in every step, a Request that is completed or cancelled keeps its
\* status.
C3_TerminalRequestImmutable ==
  [][\A r \in RequestIds :
       requests[r].status \in RequestTerminal =>
         requests'[r].status = requests[r].status]_vars

\* C4: of two status transitions of the same Match (or the same Request)
\* that loaded the same persisted version and ask for different statuses,
\* exactly one answers 200 and the other answers 409 (StaleState).
C4_StaleStateDetected ==
  \A p, q \in Procs :
    ( /\ p # q
      /\ out[p].op \in {"updateMatchStatus", "updateRequestStatus"}
      /\ out[q].op = out[p].op
      /\ out[p].code \in {200, 409}
      /\ out[q].code \in {200, 409}
      /\ out[p].match = out[q].match
      /\ out[p].req = out[q].req
      /\ out[p].loadRev = out[q].loadRev
      /\ out[p].target # out[q].target )
    => {out[p].code, out[q].code} = {200, 409}

\* C5: no two Matches of the same (Request, Donor) pair are non-terminal at
\* the same time.
C5_OneActiveMatchPerPair ==
  \A i, j \in 1..Len(matches) :
    ( /\ i # j
      /\ matches[i].request = matches[j].request
      /\ matches[i].donor = matches[j].donor )
    => (matches[i].status \in MatchTerminal \/ matches[j].status \in MatchTerminal)

\* C6: an updateMatchStatus call that moved a Match to rejected leaves the
\* owning Request in searching when it was matched, and leaves the Request
\* as it was (writing only the Match) when it was completed or cancelled.
C6_RejectCompanion ==
  \A p \in Procs :
    ( /\ out[p].op = "updateMatchStatus"
      /\ out[p].target = "rejected"
      /\ out[p].code = 200 )
    => /\ out[p].rBefore = "matched" => out[p].rAfter = "searching"
       /\ out[p].rBefore \in RequestTerminal =>
            (out[p].rAfter = out[p].rBefore /\ out[p].wrote = 1)

\* C7: a reportOutcome call that answered 200 left the Match transplanted
\* and the Request completed for successful=true, the Match failed and the
\* Request searching for successful=false; when the only calls made were one
\* confirmMatch and one successful reportOutcome, the Match and the Request
\* each hold two status-history entries.
C7_ReportOutcome ==
  \A p \in Procs :
    (out[p].op = "reportOutcome" /\ out[p].code = 200) =>
      /\ out[p].mAfter = IF out[p].successful THEN "transplanted" ELSE "failed"
      /\ out[p].rAfter = IF out[p].successful THEN "completed" ELSE "searching"
      /\ (out[p].successful /\ opsStarted = 2 /\ Len(matches) = 1) =>
           (out[p].mHist = 2 /\ out[p].rHist = 2)

\* C8: an updateMatchStatus call that moved a Match to transplanted leaves
\* the owning Request completed, and one that moved it to failed leaves the
\* Request searching, unless the Request was completed or cancelled.
C8_OutcomeCompanion ==
  \A p \in Procs :
    ( /\ out[p].op = "updateMatchStatus"
      /\ out[p].code = 200
      /\ out[p].target \in {"transplanted", "failed"}
      /\ out[p].rBefore \notin RequestTerminal )
    => out[p].rAfter = IF out[p].target = "transplanted" THEN "completed"
                       ELSE "searching"

\* C9: a confirmMatch, updateMatchStatus or reportOutcome call that answered
\* 500 because a save failed has persisted none of its writes.
C9_FailedSaveAborts ==
  \A p \in Procs :
    ( /\ out[p].op \in {"confirmMatch", "updateMatchStatus", "reportOutcome"}
      /\ out[p].code = 500 )
    => out[p].wrote = 0

\* C10: every call that performed a status transition (answered 200 or 201)
\* made exactly one notification attempt.
C10_OneNotificationPerTransition ==
  \A p \in Procs :
    ( /\ out[p].op \in {"confirmMatch", "updateMatchStatus",
                        "updateRequestStatus", "reportOutcome"}
      /\ out[p].code \in {200, 201} )
    => out[p].notified = 1

\* C11: when the notification attempt of confirmMatch fails, the step that
\* made the attempt leaves every Request and Match as persisted and the call
\* answers 201 for the Match it created.
C11_NotificationFailureKeepsTransition ==
  [][ \A p \in Procs :
        ( /\ pc[p] = "cm_notify"
          /\ pc'[p] = "idle"
          /\ out'[p].undelivered = 1 )
        => /\ out'[p].code = 201
           /\ out'[p].wrote = 2
           /\ out'[p].match = loc[p].match
           /\ matches' = matches
           /\ requests' = requests
           /\ matches[loc[p].match].status = "proposed"
                \/ matches[loc[p].match].rev > 0 ]_vars

\* a confirmMatch call answered although its notification was not delivered
C11_Witness ==
  \E p \in Procs :
    /\ out[p].op = "confirmMatch"
    /\ out[p].undelivered = 1
    /\ out[p].code = 201
    /\ out[p].match \in 1..Len(matches)
    /\ matches[out[p].match].request = out[p].req
    /\ matches[out[p].match].donor = out[p].donor

\* C12: the status history of a Request and of a Match is an append-only
\* log of its status: no step removes or rewrites an entry, and every step
\* that changes the status of a Request or Match appends exactly one entry,
\* the new status, to that document's history.
C12_HistoryIsCompleteLog ==
  [][ /\ \A r \in RequestIds :
           requests[r].exists =>
             IF requests'[r].status # requests[r].status
             THEN requests'[r].statusHistory
                    = Append(requests[r].statusHistory, requests'[r].status)
             ELSE /\ Len(requests'[r].statusHistory)
                       >= Len(requests[r].statusHistory)
                  /\ SubSeq(requests'[r].statusHistory, 1,
                            Len(requests[r].statusHistory))
                       = requests[r].statusHistory
      /\ \A m \in 1..Len(matches) :
           IF matches'[m].status # matches[m].status
           THEN matches'[m].statusHistory
                  = Append(matches[m].statusHistory, matches'[m].status)
           ELSE /\ Len(matches'[m].statusHistory)
                     >= Len(matches[m].statusHistory)
                /\ SubSeq(matches'[m].statusHistory, 1,
                          Len(matches[m].statusHistory))
                     = matches[m].statusHistory ]_vars

\* C13: the duplicate check of a confirmMatch call answers 400 exactly when
\* a non-terminal Match of the (Request, Donor) pair exists; when every
\* Match of the pair is terminal the call goes on to create a new Match.
C13_DuplicateOnlyWhileNonTerminal ==
  [][ \A p \in Procs :
        ( pc[p] = "cm_lookup" /\ pc'[p] # "cm_lookup" )
        => LET active ==
                 \E i \in 1..Len(matches) :
                   /\ matches[i].request = loc[p].req
                   /\ matches[i].donor = loc[p].donor
                   /\ matches[i].status \notin MatchTerminal
           IN IF active
              THEN pc'[p] = "idle" /\ out'[p].code = 400
              ELSE pc'[p] = "cm_saveMatch" ]_vars

\* C14: an updateLogistics call on a Match it loaded in transplanted,
\* rejected or failed is refused and leaves the Matches as they were; the
\* save of an updateLogistics call changes neither the status nor the status
\* history of any Match.
C14_LogisticsOnlyWhileNonTerminal ==
  [][ \A p \in Procs :
        pc[p] = "ul_save"
        => /\ ( pc'[p] = "idle" /\ loc[p].from \in MatchTerminal )
                => ( out'[p].code # 200 /\ matches' = matches )
           /\ \A m \in 1..Len(matches) :
                ( pc'[p] = "idle" )
                => /\ matches'[m].status = matches[m].status
                   /\ matches'[m].statusHistory = matches[m].statusHistory
    ]_vars

\* C15: an updateMatchStatus call on a stored Match by a hospital user whose
\* profile is not the hospital of the Match's Request, by a donor who is not
\* the Match's donor, or by a donor asking for a status other than
\* pending_confirmation, confirmed or rejected answers 403 at once and
\* changes no Match and no Request.
C15_UnauthorizedTransitionRefused ==
  [][ \A p \in Procs :
        ( /\ pc[p] = "idle"
          /\ "updateMatchStatus" \in {out'[p].op, loc'[p].op} )
        => \/ /\ pc'[p] = "idle"
              /\ out'[p].code = 403
              /\ out'[p].wrote = 0
              /\ matches' = matches
              /\ requests' = requests
           \/ \A m \in 1..Len(matches), t \in MatchStatuses, a \in Actors :
                ~ ( /\ \/ /\ a.role = "hospital"
                          /\ \/ a.id = 0
                             \/ a.id # requests[matches[m].request].hospital
                       \/ /\ a.role = "donor"
                          /\ \/ a.id # matches[m].donor
                             \/ t \notin {"pending_confirmation", "confirmed",
                                          "rejected"}
                    /\ UpdateMatchStatus(p, m, t, a) ) ]_vars

\* a hospital user's updateMatchStatus call on a stored Match was answered
\* 403 by the permission block of the handler
C15_Witness ==
  \E p \in Procs :
    /\ out[p].op = "updateMatchStatus"
    /\ out[p].code = 403
    /\ out[p].msg = "Not authorized to update this match"
    /\ Len(matches) >= 1

\* C16: no answer of findPotentialMatches lists a donor whose Donor document
\* has isAvailable = false.
C16_UnavailableDonorNeverReturned ==
  search.code = 200 =>
    \A i \in 1..Len(search.results) :
      donorDocs[search.results[i].donorId].isAvailable

\* the Glossary's table: for a donor type, the requested types it may serve
GlossaryRecipients(donorType) ==
  CASE donorType = "O-" -> {"O-", "O+", "A-", "A+", "B-", "B+", "AB-", "AB+"}
    [] donorType = "O+" -> {"O+", "A+", "B+", "AB+"}
    [] donorType = "A-" -> {"A-", "A+", "AB-", "AB+"}
    [] donorType = "A+" -> {"A+", "AB+"}
    [] donorType = "B-" -> {"B-", "B+", "AB-", "AB+"}
    [] donorType = "B+" -> {"B+", "AB+"}
    [] donorType = "AB-" -> {"AB-", "AB+"}
    [] donorType = "AB+" -> {"AB+"}

\* C17: for each of the 64 (donor type, requested type) pairs, the donor
\* type is in the answer of getCompatibleBloodTypes(requested type) exactly
\* when the Glossary's table lists the requested type for the donor type.
C17_CompatibilityTable ==
  ( /\ call.fn = "getCompatibleBloodTypes"
    /\ call.done
    /\ call.requestedType \in BloodTypes )
  => ( call.donorType \in call.ret
         <=> call.requestedType \in GlossaryRecipients(call.donorType) )

\* the table was consulted for an AB+ request and accepts an O- donor
C17_Witness ==
  /\ call.fn = "getCompatibleBloodTypes"
  /\ call.done
  /\ call.requestedType = "AB+"
  /\ call.donorType = "O-"
  /\ call.donorType \in call.ret

\* the date of a donor's last donation: the later of the date recorded on
\* the Donor document and the date on the profile; NoDate when neither is set
LastDonation(d) ==
  IF donorDocs[d].lastDonationDate > users[d].lastBloodDonationDate
  THEN donorDocs[d].lastDonationDate
  ELSE users[d].lastBloodDonationDate

\* C18: in the answer to a search for a blood request, a donor of a
\* compatible blood type who is open to blood donation and has donated
\* before is missing exactly when fewer than 56 whole days lie between the
\* donor's last donation and the search: at 55 days the donor is missing,
\* at 56 days or more the donor is listed.
C18_DeferralIs56WholeDays ==
  ( search.code = 200 /\ search.requestType = "blood" )
  => \A d \in SearchDonors :
       ( /\ search.bloodType \in GlossaryRecipients(users[d].bloodType)
         /\ users[d].availableForBloodDonation
         /\ LastDonation(d) # NoDate )
       => ( (\E i \in 1..Len(search.results) : search.results[i].donorId = d)
              <=> (search.at - LastDonation(d)) \div DaySeconds >= 56 )

\* C19: the answer to a search for an organ request lists a donor exactly
\* when the requested organ is marked available in the donor's
\* organDonatable list and, if the Request carries a blood type, the donor's
\* blood type may serve it; a Request without a blood type excludes no donor
\* on blood type.
C19_OrganEligibility ==
  ( search.code = 200 /\ search.requestType = "organ" )
  => \A d \in SearchDonors :
       (\E i \in 1..Len(search.results) : search.results[i].donorId = d)
         <=> /\ \E e \in donorDocs[d].organDonatable :
                  e.organType = search.organType /\ e.isAvailable
             /\ \/ search.bloodType = "none"
                \/ search.bloodType \in GlossaryRecipients(users[d].bloodType)

\* C20: the score computed for a request and a donor of a compatible blood
\* type is an integer from 0 to 100 and equals the sum, clamped to 100, of
\* 40 for compatibility, of 30, 20, 10 or 0 for the distance (under 10 km,
\* under 25 km, under 50 km, beyond or unknown) and of 30, 20 or 10 for the
\* availability class (immediate, flexible, any other).
C20_ScoreIsClampedSum ==
  ( /\ call.fn = "calculateMatchScore"
    /\ call.done
    /\ call.donorProfile.bloodType \in BloodTypes
    /\ call.request.bloodType \in GlossaryRecipients(call.donorProfile.bloodType) )
  => LET km == call.donorProfile.distance
         known == call.request.located /\ call.donorProfile.located
         distancePart ==
           CASE known /\ km < 10 -> 30
             [] known /\ km >= 10 /\ km < 25 -> 20
             [] known /\ km >= 25 /\ km < 50 -> 10
             [] OTHER -> 0
         availabilityPart ==
           CASE call.donorProfile.availability = "immediate" -> 30
             [] call.donorProfile.availability = "flexible" -> 20
             [] OTHER -> 10
         sum == 40 + distancePart + availabilityPart
     IN /\ call.ret \in 0..100
        /\ call.ret = IF sum > 100 THEN 100 ELSE sum

\* the score of a compatible donor 5 km away with immediate availability
\* was computed and is 100
C20_Witness ==
  /\ call.fn = "calculateMatchScore"
  /\ call.done
  /\ call.request.bloodType = "O-"
  /\ call.donorProfile.bloodType = "O-"
  /\ call.request.located /\ call.donorProfile.located
  /\ call.donorProfile.distance = 5
  /\ call.donorProfile.availability = "immediate"
  /\ call.ret = 100

\* the distance tier of a donor: 0 under 10 km, 1 under 25 km, 2 under
\* 50 km, 3 beyond
DistanceTier(km) ==
  IF km < 10 THEN 0 ELSE IF km < 25 THEN 1 ELSE IF km < 50 THEN 2 ELSE 3

\* C21: of two candidates listed in one answer of the search that have the
\* same blood type and the same availability class, the one in a nearer
\* distance tier has the strictly greater score.
C21_ScoreDecreasesAcrossTiers ==
  search.code = 200 =>
    \A i, j \in 1..Len(search.results) :
      LET a == users[search.results[i].donorId]
          b == users[search.results[j].donorId]
      IN ( /\ a.bloodType = b.bloodType
           /\ a.availability = b.availability
           /\ a.located /\ b.located
           /\ DistanceTier(a.distance) < DistanceTier(b.distance) )
         => search.results[i].matchScore > search.results[j].matchScore

\* C22: with Donor A (O-, 5 km away, availability immediate, donation 100
\* days before the search) and Donor B (A+, 3 km away) registered, the
\* answer to a search for a blood Request of type O- is exactly Donor A
\* with score 100.
C22_ScenarioScore100 ==
  ( /\ search.code = 200
    /\ search.requestType = "blood"
    /\ search.bloodType = "O-"
    /\ search.at = 100 * DaySeconds
    /\ DOMAIN users = {1, 2}
    /\ users[1].bloodType = "O-"
    /\ users[1].located /\ users[1].distance = 5
    /\ users[1].availability = "immediate"
    /\ users[1].lastBloodDonationDate = 0
    /\ users[2].bloodType = "A+"
    /\ users[2].located /\ users[2].distance = 3 )
  => /\ Len(search.results) = 1
     /\ search.results[1].donorId = 1
     /\ search.results[1].matchScore = 100

\* C23: the candidates of an answer of the search are listed by descending
\* score, and candidates of equal score by ascending distance.
C23_SortedByScoreThenDistance ==
  search.code = 200 =>
    \A i, j \in 1..Len(search.results) :
      i < j =>
        LET a == search.results[i]
            b == search.results[j]
        IN \/ a.matchScore > b.matchScore
           \/ /\ a.matchScore = b.matchScore
              /\ users[a.donorId].distance <= users[b.donorId].distance

\* C24: once a handler has applied a transition to a Match or Request, the
\* notifications of that Request include one addressed to the coordinators
\* exactly when the Request's urgency is emergency or critical.
C24_CoordinatorsNotifiedOnEmergency ==
  \A p \in Procs :
    (/\ out[p].op \in {"confirmMatch", "updateMatchStatus"}
     /\ out[p].code \in {200, 201}
     /\ requests[out[p].req].exists)
      => ((requests[out[p].req].urgencyLevel \in {"emergency", "critical"})
           <=> (\E i \in 1..Len(notifications) :
                  /\ notifications[i].request = out[p].req
                  /\ notifications[i].kind = "emergency"))

\* C25: every stored Match refers to a Request that is still in the store.
C25_MatchedRequestNeverDeleted ==
  \A i \in 1..Len(matches) : requests[matches[i].request].exists

\* C26: an updateRequest call that loads a Request in completed or cancelled
\* is not answered with 200 and writes nothing.
C26_TerminalRequestNotEdited ==
  \A p \in Procs :
    (out[p].op = "updateRequest" /\ out[p].from \in RequestTerminal)
      => (out[p].code # 200 /\ out[p].wrote = 0)

\* C27: a Request is in searching only if none of its Matches is
\* non-terminal: rejecting one Match does not send the Request back to
\* searching while another of its Matches is still active.  Matches that
\* left a terminal status again are set aside: the property is about
\* Matches that only moved forward, in states where no handler is running.
C27_SearchingOnlyWithoutActiveMatch ==
  (/\ \A p \in Procs : pc[p] = "idle"
   /\ \A i \in 1..Len(matches) :
        \A k \in 1..(Len(matches[i].statusHistory) - 1) :
          matches[i].statusHistory[k] \notin MatchTerminal)
    => \A r \in RequestIds :
         (requests[r].exists /\ requests[r].status = "searching")
           => \A i \in 1..Len(matches) :
                matches[i].request = r => matches[i].status \in MatchTerminal

\* C28: every stored Request status is one of the six Request statuses and
\* every stored Match status is one of the eight Match statuses.
C28_StoredStatusesAreDeclared ==
  /\ \A r \in RequestIds :
       requests[r].exists =>
         requests[r].status \in
           {"pending", "searching", "matched", "in_progress", "completed",
            "cancelled"}
  /\ \A i \in 1..Len(matches) :
       matches[i].status \in
         {"proposed", "pending_confirmation", "confirmed", "rejected",
          "in_transit", "delivered", "transplanted", "failed"}

\* C29: once no handler is running, the matches list of a Request holds
\* exactly the identities of the Matches whose request it is, each once.
C29_MatchesListIsExact ==
  (\A p \in Procs : pc[p] = "idle") =>
    \A r \in RequestIds :
      requests[r].exists =>
        /\ {requests[r].matches[k] : k \in 1..Len(requests[r].matches)}
             = {i \in 1..Len(matches) : matches[i].request = r}
        /\ Len(requests[r].matches)
             = Cardinality({i \in 1..Len(matches) : matches[i].request = r})

\* C30: a reset token changes the password at most once: no two
\* resetPassword calls that set different passwords are both answered with
\* success for the same token.
C30_ResetTokenUsedAtMostOnce ==
  \A p, q \in Procs :
    (/\ out[p].op = "resetPassword" /\ out[p].code = 200
     /\ out[q].op = "resetPassword" /\ out[q].code = 200
     /\ out[p].password # out[q].password)
      => out[p].token # out[q].token
====
